---- MODULE Spec2Model ----
(***************************************************************************)
(* Model of ThreeDHandler.get (tornado_handlers/three_d.py): the GET       *)
(* handler that extracts telemetry streams from a ULog, aligns their       *)
(* timestamps to UTC and serialises each stream for the 3D page.          *)
(*                                                                         *)
(* Conventions.  A numpy array is a function over 0..n-1 (Python's         *)
(* indices are kept).  A dataset (.data of a ULog dataset) is a function   *)
(* from field names to arrays.  A serialised series ('[ ' + records +      *)
(* ' ]') is the sequence of its records; a record is the sequence of its   *)
(* formatted items, the ISO timestamp first.  Floating point values are    *)
(* integers in units of 1e-6.                                              *)
(***************************************************************************)
EXTENDS Integers, Sequences, FiniteSets, TLC

VARIABLES
    pc,              \* position of the handler in get()
    ulog,            \* the loaded log (immutable input)
    data,            \* the handler's stream locals: name -> None | dataset
    takeoff_index,
    takeoff,         \* takeoff_altitude / _latitude / _longitude strings
    utc_offset,
    color,           \* the local `color` of the flight mode loop
    series,          \* the serialised series: name -> sequence of records
    stamps,          \* start_ / boot_ / end_timestamp_str
    mav_type,
    model,           \* model_scale_factor, model_uri
    response         \* what the request produced: status, message, page

vars == <<pc, ulog, data, takeoff_index, takeoff, utc_offset, color, series,
          stamps, mav_type, model, response>>

-----------------------------------------------------------------------------
(* Bounds of the model *)

\* largest sample count of a stream other than GPS
MaxSamples == 2
\* largest sample count of the GPS stream
MaxGps == 4
\* largest value of actuator_outputs.noutputs
MaxNoutputs == 9
\* most optional streams that lack a field in one log
MaxMalformed == 1
\* most flight mode change events
MaxModes == 2

-----------------------------------------------------------------------------
(* Names *)

RequiredLocals == <<"gps_pos", "vehicle_global_position", "attitude">>

OptionalLocals ==
    <<"manual_control_setpoint", "vehicle_local_position",
      "vehicle_local_position_setpoint", "vehicle_attitude_setpoint",
      "vehicle_rates_setpoint", "actuator_outputs", "sensor_combined",
      "actuator_controls_0">>

Range(s) == {s[k] : k \in DOMAIN s}

Locals == Range(RequiredLocals) \cup Range(OptionalLocals)

\* the topic a local is looked up under (get_dataset's argument)
TopicOf(local) ==
    CASE local = "gps_pos" -> "vehicle_gps_position"
      [] local = "attitude" -> "vehicle_attitude"
      [] OTHER -> local

Topics == {TopicOf(l) : l \in Locals}

SeriesNames ==
    {"flight_modes_str", "manual_control_setpoints_str", "position_data",
     "attitude_data", "vehicle_rates_setpoint_data", "sensor_combined_data",
     "vehicle_attitude_setpoint_data", "vehicle_local_position_data",
     "vehicle_local_position_setpoint_data", "actuator_outputs_data",
     "actuator_controls_0_data"}

\* the fields each serialiser reads, in the order it emits them
ManualFields == <<"x", "y", "z", "r">>
GpsFields == <<"lon", "lat", "alt">>
AttitudeFields ==
    <<"q[1]", "q[2]", "q[3]", "q[0]", "rollspeed", "pitchspeed", "yawspeed">>
RatesFields == <<"roll", "pitch", "yaw">>
SensorFields ==
    <<"gyro_rad[0]", "gyro_rad[1]", "gyro_rad[2]", "accelerometer_m_s2[0]",
      "accelerometer_m_s2[1]", "accelerometer_m_s2[2]">>
AttSpFields == <<"roll_body", "pitch_body", "yaw_body">>
LocalPosFields == <<"x", "y", "z", "vx", "vy", "vz">>
ControlsFields == <<"control[0]", "control[1]", "control[2]", "control[3]">>

\* 'output['+str(x)+']'
OutputNames ==
    <<"output[0]", "output[1]", "output[2]", "output[3]", "output[4]",
      "output[5]", "output[6]", "output[7]", "output[8]", "output[9]",
      "output[10]", "output[11]", "output[12]", "output[13]", "output[14]",
      "output[15]">>
OutputName(x) == OutputNames[x + 1]

-----------------------------------------------------------------------------
(* Values *)

len(a) == Cardinality(DOMAIN a)

EmptyData == [f \in {} |-> [i \in {} |-> 0]]
None == [some |-> FALSE, d |-> EmptyData]
Some(d) == [some |-> TRUE, d |-> d]

Max(S) == CHOOSE m \in S : \A x \in S : x <= m
Min(S) == CHOOSE m \in S : \A x \in S : m <= x

-----------------------------------------------------------------------------
(* The logs the handler is run on.  pyulog only keeps a dataset that has   *)
(* at least one sample, so every located stream has one or more samples.   *)

IndexOf(fields, f) == CHOOSE k \in DOMAIN fields : fields[k] = f

\* device timestamp (microseconds) of sample i of the stream tagged `tag`
Ts(tag, i) == 500000 * (i + 1) + 1000 * (tag % 3)

\* the value (units of 1e-6) of the k-th field of sample i
Val(tag, k, i) == 100000 * (i + 1) + 10000 * tag + 1400 * k

\* GPS time of sample i: the device clock is 10 s behind at boot and drifts
UtcOf(i) == Ts(0, i) + 10000000 + 250000 * i

Dataset(tag, fields, n) ==
    [f \in Range(fields) \cup {"timestamp"} |->
        [i \in 0 .. n - 1 |->
            IF f = "timestamp" THEN Ts(tag, i)
            ELSE Val(tag, IndexOf(fields, f), i)]]

Without(d, f) == [g \in DOMAIN d \ {f} |-> d[g]]

GpsDataset(fix) ==
    [f \in {"timestamp", "time_utc_usec", "fix_type", "lat", "lon", "alt"} |->
        [i \in DOMAIN fix |->
            CASE f = "timestamp" -> Ts(0, i)
              [] f = "time_utc_usec" -> UtcOf(i)
              [] f = "fix_type" -> fix[i]
              [] OTHER -> Val(0, IndexOf(GpsFields, f), i)]]

\* actuator_outputs with the noutputs array `nout` and k output[] fields
ActuatorDataset(nout, k) ==
    [f \in {"timestamp", "noutputs"} \cup {OutputName(x) : x \in 0 .. k - 1} |->
        [i \in DOMAIN nout |->
            CASE f = "timestamp" -> Ts(6, i)
              [] f = "noutputs" -> nout[i]
              [] OTHER -> Val(6, IndexOf(OutputNames, f), i)]]

Arrays(maxlen, V) == UNION {[0 .. n - 1 -> V] : n \in 1 .. maxlen}

FixTypes == 1 .. 4

\* the fields and tag of the dataset of each stream with a fixed layout
LayoutOf(local) ==
    CASE local = "vehicle_global_position" -> <<1, GpsFields>>
      [] local = "attitude" -> <<2, AttitudeFields>>
      [] local = "manual_control_setpoint" -> <<3, ManualFields>>
      [] local = "vehicle_local_position" -> <<4, LocalPosFields>>
      [] local = "vehicle_local_position_setpoint" -> <<5, LocalPosFields>>
      [] local = "vehicle_attitude_setpoint" -> <<7, AttSpFields>>
      [] local = "vehicle_rates_setpoint" -> <<8, RatesFields>>
      [] local = "sensor_combined" -> <<9, SensorFields>>
      [] local = "actuator_controls_0" -> <<10, ControlsFields>>

\* a well-formed dataset of `local` with n samples
WellFormed(local, n) ==
    CASE local = "gps_pos" -> GpsDataset([i \in 0 .. n - 1 |-> IF i = 0 THEN 2 ELSE 3])
      [] local = "actuator_outputs" -> ActuatorDataset([i \in 0 .. n - 1 |-> 4], 16)
      [] OTHER -> Dataset(LayoutOf(local)[1], LayoutOf(local)[2], n)

\* a dataset of `local` that lacks a field its serialiser reads
Malformed(local) ==
    CASE local = "gps_pos" -> Without(WellFormed(local, 2), "alt")
      [] local = "actuator_outputs" -> ActuatorDataset([i \in 0 .. 1 |-> 4], 3)
      [] OTHER -> Without(WellFormed(local, 2),
                          LayoutOf(local)[2][Len(LayoutOf(local)[2])])

\* flight_modes_table of plot_app/helper.py: code -> (name, color)
flight_modes_table ==
    [m \in {0, 1, 2} |->
        CASE m = 0 -> <<"Manual", "#cc0000">>
          [] m = 1 -> <<"Altitude", "#eecc00">>
          [] m = 2 -> <<"Position", "#00cc33">>]

\* mode codes of the events: two of the table, two outside it
ModeCodes == {0, 2, 9, -1}

\* get_flight_mode_changes(ulog): a list of (timestamp, mode) events
ModeChangeLists ==
    UNION {[1 .. n -> {<<Ts(0, 0), m>> : m \in ModeCodes}
                      \cup {<<Ts(1, 1), m>> : m \in ModeCodes}]
           : n \in 0 .. MaxModes}

NoParam == [some |-> FALSE, v |-> 0]
Param(v) == [some |-> TRUE, v |-> v]
\* ulog.initial_parameters.get('MAV_TYPE', None)
MavTypes == {NoParam} \cup {Param(v) : v \in {0, 1, 2, 3, 13, 22}}

StreamsOf(f) == [t \in Topics |-> LET l == CHOOSE l \in Locals : TopicOf(l) = t IN f[l]]

DefaultLocals == [l \in Locals |-> Some(WellFormed(l, 2))]

DefaultModes == <<<<Ts(0, 0), 0>>, <<Ts(1, 1), 9>>>>

Log(locals, modes, mav) ==
    [streams |-> StreamsOf(locals), mode_changes |-> modes, mav_type |-> mav]

MalformedLocals == [l \in Locals |-> Some(Malformed(l))]

\* every presence combination of the streams; and, with the required
\* streams in the log, every one where some optional streams (at most
\* MaxMalformed) lack a field
LogsStreams(log) ==
    \E bad \in {b \in SUBSET Range(OptionalLocals) : Cardinality(b) <= MaxMalformed} :
        \E absent \in SUBSET (IF bad = {} THEN Locals
                              ELSE Range(OptionalLocals) \ bad) :
            log = Log([l \in Locals |->
                          IF l \in absent THEN None
                          ELSE IF l \in bad THEN MalformedLocals[l]
                          ELSE DefaultLocals[l]], DefaultModes, Param(2))

\* every fix_type array of the GPS stream
LogsGps(log) ==
    \E fix \in Arrays(MaxGps, FixTypes) :
        log = Log([DefaultLocals EXCEPT !["gps_pos"] = Some(GpsDataset(fix))],
                  DefaultModes, Param(2))

\* every sample count of the attitude and of the optional streams
LogsSamples(log) ==
    \E n \in (1 .. MaxSamples) \X (1 .. MaxSamples) :
        log = Log([l \in Locals |->
                      IF l = "gps_pos" THEN DefaultLocals[l]
                      ELSE IF l = "attitude" THEN Some(WellFormed(l, n[1]))
                      ELSE Some(WellFormed(l, n[2]))], DefaultModes, Param(2))

\* a required stream that is located and lacks a field
LogsRequiredMalformed(log) ==
    \E l \in Range(RequiredLocals) :
        log = Log([DefaultLocals EXCEPT ![l] = MalformedLocals[l]],
                  DefaultModes, Param(2))

\* every noutputs array of actuator_outputs, with 8 or 16 output[] fields
LogsActuator(log) ==
    \E a \in Arrays(MaxSamples, 0 .. MaxNoutputs) \X {8, 16} :
        log = Log([DefaultLocals EXCEPT !["actuator_outputs"] =
                      Some(ActuatorDataset(a[1], a[2]))], DefaultModes, Param(2))

LogsModes(log) == \E m \in ModeChangeLists : log = Log(DefaultLocals, m, Param(2))

LogsMav(log) == \E v \in MavTypes : log = Log(DefaultLocals, DefaultModes, v)

\* one attitude sample with the stored quaternion (w, x, y, z) =
\* (0.7, 0.1, 0.2, 0.68)
QuaternionDataset ==
    [f \in Range(AttitudeFields) \cup {"timestamp"} |->
        [i \in 0 .. 0 |->
            CASE f = "timestamp" -> Ts(2, i)
              [] f = "q[0]" -> 700000
              [] f = "q[1]" -> 100000
              [] f = "q[2]" -> 200000
              [] f = "q[3]" -> 680000
              [] f = "rollspeed" -> 10000
              [] f = "pitchspeed" -> 20000
              [] f = "yawspeed" -> 30000]]

LogsQuaternion(log) ==
    log = Log([DefaultLocals EXCEPT !["attitude"] = Some(QuaternionDataset)],
              DefaultModes, Param(2))

Logs(log) ==
    \/ LogsStreams(log)
    \/ LogsGps(log)
    \/ LogsSamples(log)
    \/ LogsRequiredMalformed(log)
    \/ LogsActuator(log)
    \/ LogsModes(log)
    \/ LogsMav(log)
    \/ LogsQuaternion(log)

-----------------------------------------------------------------------------
(* The state of a request *)

NoResponse == [status |-> 0, message |-> "", written |-> FALSE]

NoTakeoff == [altitude |-> 0, latitude |-> 0, longitude |-> 0]

NoIso == [sec |-> 0, usec |-> 0]

NoStamps == [start |-> NoIso, boot |-> NoIso, end |-> NoIso]

NoModel == [model_scale_factor |-> "", model_uri |-> ""]

Init ==
    /\ pc = "validate"
    /\ Logs(ulog)
    /\ data = [l \in Locals |-> None]
    /\ takeoff_index = 0
    /\ takeoff = NoTakeoff
    /\ utc_offset = 0
    /\ color = ""
    /\ series = [s \in SeriesNames |-> <<>>]
    /\ stamps = NoStamps
    /\ mav_type = NoParam
    /\ model = NoModel
    /\ response = NoResponse

\* ulog.get_dataset(name).data: the dataset, or None where the lookup
\* raises KeyError, IndexError or ValueError
get_dataset(name) == ulog.streams[name]

RequiredTopicsMessage ==
    "The log does not contain all required topics<br />(vehicle_gps_position, vehicle_global_position, vehicle_attitude)"

\* an exception leaves get(): tornado answers with `status`
Abort(status, message) ==
    /\ pc' = "error"
    /\ response' = [status |-> status, message |-> message, written |-> FALSE]

\* log_id = self.get_argument('log'); validate_log_id; load_ulog_file
Validate ==
    /\ pc = "validate"
    /\ \E valid \in BOOLEAN :
          IF valid THEN pc' = "required" /\ UNCHANGED response
          ELSE Abort(400, "Invalid Parameter")
    /\ UNCHANGED <<ulog, data, takeoff_index, takeoff, utc_offset, color,
                   series, stamps, mav_type, model>>

\* the locals the try block of the required topics has assigned when it
\* ends: the lookups run in order and stop at the first that raises
RequiredAssigned ==
    LET firstMissing ==
            Min({k \in 1 .. 3 : ~get_dataset(TopicOf(RequiredLocals[k])).some}
                \cup {4})
    IN [l \in Locals |->
           IF \E k \in 1 .. 3 : k < firstMissing /\ RequiredLocals[k] = l
           THEN get_dataset(TopicOf(l)) ELSE data[l]]

\* only the first lookup's failure is noticed
RequiredRaises_FirstOnly == ~get_dataset(TopicOf(RequiredLocals[1])).some

RequiredRaises == \E k \in 1 .. 3 : ~get_dataset(TopicOf(RequiredLocals[k])).some

\* required topics: none of these are optional
LookupRequired ==
    /\ pc = "required"
    /\ data' = RequiredAssigned
    /\ IF RequiredRaises THEN Abort(400, RequiredTopicsMessage)
       ELSE pc' = "lookup_manual_control_setpoint" /\ UNCHANGED response
    /\ UNCHANGED <<ulog, takeoff_index, takeoff, utc_offset, color, series,
                   stamps, mav_type, model>>

\* pc of the try block of the k-th optional topic; the takeoff follows the last
LookupPc(k) ==
    IF k <= Len(OptionalLocals) THEN "lookup_" \o OptionalLocals[k] ELSE "takeoff"

\* one try block of an optional topic: the local stays None when the
\* lookup raises, and the handler goes on
LookupOptional(k) ==
    /\ pc = LookupPc(k)
    /\ data' = [data EXCEPT ![OptionalLocals[k]] = get_dataset(TopicOf(OptionalLocals[k]))]
    /\ pc' = LookupPc(k + 1)
    /\ UNCHANGED <<ulog, takeoff_index, takeoff, utc_offset, color, series,
                   stamps, mav_type, model, response>>

LookupManualControlSetpoint == LookupOptional(1)
LookupVehicleLocalPosition == LookupOptional(2)
LookupVehicleLocalPositionSetpoint == LookupOptional(3)
LookupVehicleAttitudeSetpoint == LookupOptional(4)
LookupVehicleRatesSetpoint == LookupOptional(5)
LookupActuatorOutputs == LookupOptional(6)
LookupSensorCombined == LookupOptional(7)
LookupActuatorControls0 == LookupOptional(8)

-----------------------------------------------------------------------------
(* Formatting *)

UsecPerSec == 1000000

\* datetime.utcfromtimestamp(t/1.e6).replace(tzinfo=utc).isoformat(): the
\* second and the microsecond of the instant t (microseconds); the string
\* carries the fraction only when it is not zero
Iso(t) == [sec |-> t \div UsecPerSec, usec |-> t % UsecPerSec]

Pow10(n) == CASE n = 0 -> 1 [] n = 1 -> 10 [] n = 2 -> 100 [] n = 3 -> 1000

RoundDiv(v, q) == IF v >= 0 THEN (2 * v + q) \div (2 * q) ELSE -((q - 2 * v) \div (2 * q))

\* '{:.<prec>f}'.format(raw * 10^-exp): the digits of the fixed point string
Fixed(prec, exp, raw) ==
    [prec |-> prec,
     digits |-> IF prec >= exp THEN raw * Pow10(prec - exp)
                ELSE RoundDiv(raw, Pow10(exp - prec))]

\* a read of d[f] raises KeyError
Lacks(d, fields) == \E f \in fields : f \notin DOMAIN d

\* the loop `for i in range(len(d['timestamp']))` over fields raises:
\* 'timestamp' is read before the loop, the fields in its first pass
LoopRaises(d, fields) ==
    \/ Lacks(d, {"timestamp"})
    \/ len(d["timestamp"]) > 0 /\ Lacks(d, Range(fields))

\* one record of a series: the timestamp and the fields at `prec` decimals
Record(d, i, fields, prec, off) ==
    <<Iso(d["timestamp"][i] + off)>>
        \o [k \in 1 .. Len(fields) |-> Fixed(prec, 6, d[fields[k]][i])]

\* the loop runs from 1 and misses the first sample
SerialiseLoop_SkipFirst(d, fields, prec, off) ==
    [k \in 1 .. len(d["timestamp"]) - 1 |-> Record(d, k, fields, prec, off)]

\* the loop of a series: one record per sample, appended in index order
SerialiseLoop(d, fields, prec, off) ==
    [k \in 1 .. len(d["timestamp"]) |-> Record(d, k - 1, fields, prec, off)]

-----------------------------------------------------------------------------
(* Takeoff location, UTC offset, flight modes *)

\* the last index with a valid fix is taken
TakeoffIndexOf_Last(fix_type) ==
    LET gps_indices == {i \in DOMAIN fix_type : fix_type[i] > 2}
    IN IF Cardinality(gps_indices) > 0 THEN Max(gps_indices) ELSE 0

\* np.nonzero(fix_type > 2): the first index with a valid fix, else 0
TakeoffIndexOf(fix_type) ==
    LET gps_indices == {i \in DOMAIN fix_type : fix_type[i] > 2}
    IN IF Cardinality(gps_indices) > 0 THEN Min(gps_indices) ELSE 0

gps_pos == data["gps_pos"].d

Takeoff ==
    /\ pc = "takeoff"
    /\ IF Lacks(gps_pos, {"fix_type", "alt", "lat", "lon"})
       THEN /\ Abort(500, "KeyError")
            /\ UNCHANGED <<takeoff_index, takeoff>>
       ELSE LET index == TakeoffIndexOf(gps_pos["fix_type"]) IN
            IF index \notin DOMAIN gps_pos["alt"]
            THEN /\ Abort(500, "IndexError")
                 /\ UNCHANGED <<takeoff_index, takeoff>>
            ELSE /\ takeoff_index' = index
                 /\ takeoff' = [altitude |-> Fixed(3, 3, gps_pos["alt"][index]),
                                latitude |-> Fixed(10, 7, gps_pos["lat"][index]),
                                longitude |-> Fixed(10, 7, gps_pos["lon"][index])]
                 /\ pc' = "utc_offset"
                 /\ UNCHANGED response
    /\ UNCHANGED <<ulog, data, utc_offset, color, series, stamps, mav_type, model>>

\* the offset is taken at the first sample, not at the takeoff
UtcOffsetOf_FirstSample(gps, index) == gps["time_utc_usec"][0] - gps["timestamp"][0]

\* calculate UTC time offset (assume there's no drift over the entire log)
UtcOffsetOf(gps, index) == gps["time_utc_usec"][index] - gps["timestamp"][index]

UtcOffset ==
    /\ pc = "utc_offset"
    /\ IF Lacks(gps_pos, {"time_utc_usec", "timestamp"})
       THEN Abort(500, "KeyError") /\ UNCHANGED utc_offset
       ELSE /\ utc_offset' = UtcOffsetOf(gps_pos, takeoff_index)
            /\ pc' = "flight_modes"
            /\ UNCHANGED response
    /\ UNCHANGED <<ulog, data, takeoff_index, takeoff, color, series, stamps,
                   mav_type, model>>

\* get_flight_mode_changes(ulog)
get_flight_mode_changes == ulog.mode_changes

\* the name and color of a mode: the table's, or '' and white
ModeNameColor(mode) ==
    IF mode \in DOMAIN flight_modes_table THEN flight_modes_table[mode]
    ELSE <<"", "#ffffff">>

\* events of an unknown mode are left out
FlightModesLoop_DropUnknown(changes, off) ==
    LET known == SelectSeq(changes, LAMBDA c : c[2] \in DOMAIN flight_modes_table)
    IN [k \in 1 .. Len(known) |->
           <<Iso(known[k][1] + off), ModeNameColor(known[k][2])[1]>>]

\* the loop over the mode changes: one ["<time>", "<name>"] per event
FlightModesLoop(changes, off) ==
    [k \in 1 .. Len(changes) |->
        <<Iso(changes[k][1] + off), ModeNameColor(changes[k][2])[1]>>]

FlightModes ==
    /\ pc = "flight_modes"
    /\ LET flight_mode_changes == get_flight_mode_changes IN
       /\ series' = [series EXCEPT !["flight_modes_str"] =
                        FlightModesLoop(flight_mode_changes, utc_offset)]
       /\ color' = IF Len(flight_mode_changes) > 0
                   THEN ModeNameColor(
                            flight_mode_changes[Len(flight_mode_changes)][2])[2]
                   ELSE color
    /\ pc' = "manual_control"
    /\ UNCHANGED <<ulog, data, takeoff_index, takeoff, utc_offset, stamps,
                   mav_type, model, response>>

-----------------------------------------------------------------------------
(* The series *)

\* a series block: '[ ', the loop when `present`, ' ]'; a KeyError of the
\* loop leaves get()
SerialiseStep(here, next, out, present, d, fields, prec) ==
    /\ pc = here
    /\ IF present /\ LoopRaises(d, fields)
       THEN Abort(500, "KeyError") /\ UNCHANGED series
       ELSE /\ series' = [series EXCEPT ![out] =
                             IF present
                             THEN SerialiseLoop(d, fields, prec, utc_offset)
                             ELSE <<>>]
            /\ pc' = next
            /\ UNCHANGED response
    /\ UNCHANGED <<ulog, data, takeoff_index, takeoff, utc_offset, color,
                   stamps, mav_type, model>>

\* `if x:` on a local that is None or a dict
Truthy(x) == x.some /\ DOMAIN x.d # {}

\* `if x is not None:`
IsNotNone(x) == x.some

\* manual control setpoints (stick input)
ManualControl ==
    SerialiseStep("manual_control", "position", "manual_control_setpoints_str",
                  Truthy(data["manual_control_setpoint"]),
                  data["manual_control_setpoint"].d, ManualFields, 3)

PositionRecord(d, i, off) ==
    <<Iso(d["timestamp"][i] + off), Fixed(10, 7, d["lon"][i]),
      Fixed(10, 7, d["lat"][i]), Fixed(3, 3, d["alt"][i])>>

PositionLoop(d, off) ==
    [k \in 1 .. len(d["timestamp"]) |-> PositionRecord(d, k - 1, off)]

\* position, and the start, boot and end timestamps of the trajectory
Position ==
    /\ pc = "position"
    /\ IF LoopRaises(gps_pos, GpsFields)
       THEN Abort(500, "KeyError") /\ UNCHANGED <<series, stamps>>
       ELSE IF len(gps_pos["timestamp"]) = 0
       THEN Abort(500, "UnboundLocalError") /\ UNCHANGED <<series, stamps>>
       ELSE /\ series' = [series EXCEPT !["position_data"] =
                             PositionLoop(gps_pos, utc_offset)]
            /\ stamps' =
                  [start |-> Iso(gps_pos["timestamp"][0] + utc_offset),
                   boot |-> Iso(utc_offset),
                   end |-> Iso(gps_pos["timestamp"][len(gps_pos["timestamp"]) - 1]
                               + utc_offset)]
            /\ pc' = "attitude"
            /\ UNCHANGED response
    /\ UNCHANGED <<ulog, data, takeoff_index, takeoff, utc_offset, color,
                   mav_type, model>>

\* the quaternion is emitted in its storage order (w, x, y, z)
Attitude_StorageOrder ==
    SerialiseStep("attitude", "vehicle_rates_setpoint", "attitude_data", TRUE,
                  data["attitude"].d,
                  <<"q[0]", "q[1]", "q[2]", "q[3]", "rollspeed", "pitchspeed",
                    "yawspeed">>, 6)

\* orientation as quaternion; Cesium uses (x, y, z, w)
Attitude ==
    SerialiseStep("attitude", "vehicle_rates_setpoint", "attitude_data", TRUE,
                  data["attitude"].d, AttitudeFields, 6)

VehicleRatesSetpoint ==
    SerialiseStep("vehicle_rates_setpoint", "sensor_combined",
                  "vehicle_rates_setpoint_data",
                  IsNotNone(data["vehicle_rates_setpoint"]),
                  data["vehicle_rates_setpoint"].d, RatesFields, 6)

SensorCombined ==
    SerialiseStep("sensor_combined", "vehicle_attitude_setpoint",
                  "sensor_combined_data", IsNotNone(data["sensor_combined"]),
                  data["sensor_combined"].d, SensorFields, 6)

VehicleAttitudeSetpoint ==
    SerialiseStep("vehicle_attitude_setpoint", "vehicle_local_position",
                  "vehicle_attitude_setpoint_data",
                  IsNotNone(data["vehicle_attitude_setpoint"]),
                  data["vehicle_attitude_setpoint"].d, AttSpFields, 6)

VehicleLocalPosition ==
    SerialiseStep("vehicle_local_position", "vehicle_local_position_setpoint",
                  "vehicle_local_position_data",
                  IsNotNone(data["vehicle_local_position"]),
                  data["vehicle_local_position"].d, LocalPosFields, 6)

\* the block tests the local of the block before it
VehicleLocalPositionSetpoint_WrongGuard ==
    SerialiseStep("vehicle_local_position_setpoint", "actuator_outputs",
                  "vehicle_local_position_setpoint_data",
                  IsNotNone(data["vehicle_local_position"]),
                  data["vehicle_local_position_setpoint"].d, LocalPosFields, 6)

VehicleLocalPositionSetpoint ==
    SerialiseStep("vehicle_local_position_setpoint", "actuator_outputs",
                  "vehicle_local_position_setpoint_data",
                  IsNotNone(data["vehicle_local_position_setpoint"]),
                  data["vehicle_local_position_setpoint"].d, LocalPosFields, 6)

\* np.amax(actuator_outputs['noutputs'])
MaxOutputsOf(d) == Max(Range(d["noutputs"]))

\* the channels of one record: `for x in range(max_outputs)`.  The handler
\* also computes num_actuator_outputs = min(8, max_outputs) and never
\* reads it.
ActuatorChannels(max_outputs) ==
    LET num_actuator_outputs == IF max_outputs < 8 THEN max_outputs ELSE 8
    IN 0 .. max_outputs - 1

ActuatorRaises(d) ==
    \/ Lacks(d, {"noutputs"})
    \/ len(d["noutputs"]) = 0
    \/ Lacks(d, {"timestamp"})
    \/ /\ len(d["timestamp"]) > 0
       /\ Lacks(d, {OutputName(x) : x \in ActuatorChannels(MaxOutputsOf(d))})

ActuatorRecord(d, i, off) ==
    <<Iso(d["timestamp"][i] + off)>>
        \o [k \in 1 .. Cardinality(ActuatorChannels(MaxOutputsOf(d))) |->
               Fixed(6, 6, d[OutputName(k - 1)][i])]

ActuatorLoop(d, off) ==
    [k \in 1 .. len(d["timestamp"]) |-> ActuatorRecord(d, k - 1, off)]

\* Actuator Outputs
ActuatorOutputs ==
    /\ pc = "actuator_outputs"
    /\ LET actuator_outputs == data["actuator_outputs"] IN
       IF IsNotNone(actuator_outputs) /\ ActuatorRaises(actuator_outputs.d)
       THEN Abort(500, "KeyError") /\ UNCHANGED series
       ELSE /\ series' = [series EXCEPT !["actuator_outputs_data"] =
                             IF IsNotNone(actuator_outputs)
                             THEN ActuatorLoop(actuator_outputs.d, utc_offset)
                             ELSE <<>>]
            /\ pc' = "actuator_controls_0"
            /\ UNCHANGED response
    /\ UNCHANGED <<ulog, data, takeoff_index, takeoff, utc_offset, color,
                   stamps, mav_type, model>>

ActuatorControls0 ==
    SerialiseStep("actuator_controls_0", "model", "actuator_controls_0_data",
                  IsNotNone(data["actuator_controls_0"]),
                  data["actuator_controls_0"].d, ControlsFields, 6)

-----------------------------------------------------------------------------
(* Vehicle model and page *)

CesiumAir == "plot_app/static/cesium/SampleData/models/CesiumAir/Cesium_Air.glb"
Iris == "plot_app/static/cesium/models/iris/iris.glb"

\* the delta-quad branch is missing
ModelOf_No22(type) ==
    IF type.some /\ type.v = 1
    THEN [model_scale_factor |-> "0.06", model_uri |-> CesiumAir]
    ELSE [model_scale_factor |-> "1", model_uri |-> Iris]

\* handle different vehicle types
ModelOf(type) ==
    IF type.some /\ type.v = 1
    THEN [model_scale_factor |-> "0.06", model_uri |-> CesiumAir]
    ELSE IF type.some /\ type.v = 2
    THEN [model_scale_factor |-> "1", model_uri |-> Iris]
    ELSE IF type.some /\ type.v = 22
    THEN [model_scale_factor |-> "0.06", model_uri |-> CesiumAir]
    ELSE [model_scale_factor |-> "1", model_uri |-> Iris]

SelectModel ==
    /\ pc = "model"
    /\ mav_type' = ulog.mav_type
    /\ model' = ModelOf(ulog.mav_type)
    /\ pc' = "render"
    /\ UNCHANGED <<ulog, data, takeoff_index, takeoff, utc_offset, color,
                   series, stamps, response>>

\* self.write(template.render(...)): the series, timestamps, takeoff
\* location and model are handed to the template
Render ==
    /\ pc = "render"
    /\ response' = [status |-> 200, message |-> "", written |-> TRUE]
    /\ pc' = "done"
    /\ UNCHANGED <<ulog, data, takeoff_index, takeoff, utc_offset, color,
                   series, stamps, mav_type, model>>

Next ==
    \/ Validate
    \/ LookupRequired
    \/ LookupManualControlSetpoint
    \/ LookupVehicleLocalPosition
    \/ LookupVehicleLocalPositionSetpoint
    \/ LookupVehicleAttitudeSetpoint
    \/ LookupVehicleRatesSetpoint
    \/ LookupActuatorOutputs
    \/ LookupSensorCombined
    \/ LookupActuatorControls0
    \/ Takeoff
    \/ UtcOffset
    \/ FlightModes
    \/ ManualControl
    \/ Position
    \/ Attitude
    \/ VehicleRatesSetpoint
    \/ SensorCombined
    \/ VehicleAttitudeSetpoint
    \/ VehicleLocalPosition
    \/ VehicleLocalPositionSetpoint
    \/ ActuatorOutputs
    \/ ActuatorControls0
    \/ SelectModel
    \/ Render

Spec == Init /\ [][Next]_vars

-----------------------------------------------------------------------------
(* What the log holds, for the statements below *)

Stream(l) == ulog.streams[TopicOf(l)]

Located(l) == Stream(l).some

AllRequiredLocated == \A l \in Range(RequiredLocals) : Located(l)

PcOrder ==
    <<"validate", "required">> \o [k \in 1 .. 8 |-> LookupPc(k)]
        \o <<"takeoff", "utc_offset", "flight_modes", "manual_control",
             "position", "attitude", "vehicle_rates_setpoint", "sensor_combined",
             "vehicle_attitude_setpoint", "vehicle_local_position",
             "vehicle_local_position_setpoint", "actuator_outputs",
             "actuator_controls_0", "model", "render", "done">>

\* the handler has gone past the step at pc value p, and has not aborted
Past(p) == pc # "error" /\ IndexOf(PcOrder, pc) > IndexOf(PcOrder, p)

\* the series of a stream local, the fields it emits and their precision
SeriesOf(l) ==
    CASE l = "gps_pos" -> <<"position_data", GpsFields, 0>>
      [] l = "attitude" -> <<"attitude_data", AttitudeFields, 6>>
      [] l = "manual_control_setpoint" ->
            <<"manual_control_setpoints_str", ManualFields, 3>>
      [] l = "vehicle_local_position" ->
            <<"vehicle_local_position_data", LocalPosFields, 6>>
      [] l = "vehicle_local_position_setpoint" ->
            <<"vehicle_local_position_setpoint_data", LocalPosFields, 6>>
      [] l = "vehicle_attitude_setpoint" ->
            <<"vehicle_attitude_setpoint_data", AttSpFields, 6>>
      [] l = "vehicle_rates_setpoint" ->
            <<"vehicle_rates_setpoint_data", RatesFields, 6>>
      [] l = "actuator_outputs" -> <<"actuator_outputs_data", <<>>, 6>>
      [] l = "sensor_combined" -> <<"sensor_combined_data", SensorFields, 6>>
      [] l = "actuator_controls_0" ->
            <<"actuator_controls_0_data", ControlsFields, 6>>

SeriesLocals == Locals \ {"vehicle_global_position"}

\* a located stream that lacks a field its serialiser reads
Defective(l) ==
    /\ Located(l)
    /\ CASE l = "gps_pos" ->
              Lacks(Stream(l).d, {"timestamp", "time_utc_usec", "fix_type",
                                  "lat", "lon", "alt"})
         [] l = "actuator_outputs" -> ActuatorRaises(Stream(l).d)
         [] l = "vehicle_global_position" -> FALSE
         [] OTHER -> LoopRaises(Stream(l).d, SeriesOf(l)[2])

\* the request ended in an error after the log was loaded
Fatal == pc = "error" /\ response.message # "Invalid Parameter"

-----------------------------------------------------------------------------
(* C1: when a required stream cannot be located, the request aborts with   *)
(* the 400 error that names the three required topics, whichever stream    *)
(* is missing and whichever optional streams the log holds; no optional    *)
(* stream is looked up and no page is written.                             *)
C1_MissingRequiredAborts ==
    ~AllRequiredLocated =>
        /\ pc \in {"validate", "required", "error"}
        /\ Fatal => /\ response.status = 400
                    /\ response.message = RequiredTopicsMessage
        /\ \A l \in Range(OptionalLocals) : data[l] = None
        /\ ~response.written

\* only the attitude is missing, optional streams are in the log
C1_Witness ==
    /\ Fatal
    /\ Located("gps_pos") /\ Located("vehicle_global_position")
    /\ ~Located("attitude")
    /\ Located("sensor_combined") /\ ~Located("vehicle_rates_setpoint")
    /\ data["gps_pos"].some

(* C2: a log that holds the three required streams gets a non-fatal        *)
(* result, whatever its optional streams, sample counts and fix types.     *)
C2_RequiredLocatedNonFatal == AllRequiredLocated => ~Fatal

(* C3: an absent optional stream gives the empty series, and every other   *)
(* series is what the log's own stream gives, with that stream in the log  *)
(* or not; the absence never ends the request.                             *)
ExpectedSeries(l, stream) ==
    IF ~stream.some THEN <<>>
    ELSE CASE l = "gps_pos" -> PositionLoop(stream.d, utc_offset)
           [] l = "actuator_outputs" -> ActuatorLoop(stream.d, utc_offset)
           [] OTHER -> SerialiseLoop(stream.d, SeriesOf(l)[2], SeriesOf(l)[3],
                                     utc_offset)

C3_AbsentOptionalIndependent ==
    /\ Fatal /\ AllRequiredLocated => \E l \in Locals : Defective(l)
    /\ pc = "done" =>
          \A a \in Range(OptionalLocals) :
              ~Located(a) =>
                 /\ series[SeriesOf(a)[1]] = <<>>
                 /\ \A l \in SeriesLocals \ {a} :
                       series[SeriesOf(l)[1]] =
                          ExpectedSeries(l, [ulog.streams EXCEPT ![TopicOf(a)] =
                                                DefaultLocals[a]][TopicOf(l)])
                 /\ series["flight_modes_str"] =
                       FlightModesLoop(ulog.mode_changes, utc_offset)

\* one optional stream is absent between two that are in the log
C3_Witness ==
    /\ pc = "done"
    /\ ~Located("vehicle_local_position_setpoint")
    /\ Located("vehicle_local_position")
    /\ Located("vehicle_attitude_setpoint")
    /\ series["vehicle_local_position_data"] # <<>>
    /\ series["vehicle_local_position_setpoint_data"] = <<>>


(* C4: with actuator_outputs in the log, every record of its series has    *)
(* exactly min(8, M) channels, M the largest noutputs of the samples.      *)
C4_ChannelsCappedAt8 ==
    Past("actuator_outputs") /\ Located("actuator_outputs") =>
        LET M == Max(Range(Stream("actuator_outputs").d["noutputs"]))
            records == series["actuator_outputs_data"]
        IN \A k \in DOMAIN records :
              Len(records[k]) - 1 = (IF M < 8 THEN M ELSE 8)

(* C5: an optional stream that is located and lacks a field is taken as    *)
(* absent: its series is empty and the request goes on to a non-fatal      *)
(* result.                                                                 *)
C5_MalformedOptionalAbsorbed ==
    /\ AllRequiredLocated
    /\ \A l \in Range(RequiredLocals) : ~Defective(l)
    /\ \E l \in Range(OptionalLocals) : Defective(l)
    => /\ ~Fatal
       /\ pc = "done" =>
             \A l \in Range(OptionalLocals) :
                 Defective(l) => series[SeriesOf(l)[1]] = <<>>

(* C6: the takeoff index is the smallest GPS index with fix_type > 2, and  *)
(* 0 when there is none; the takeoff altitude, latitude and longitude are  *)
(* those of that index, and the case of no fix is no error.                *)
C6_TakeoffIndexFirstFix ==
    /\ Past("takeoff") =>
          LET gps == Stream("gps_pos").d
              fix == gps["fix_type"]
          IN /\ (\E i \in DOMAIN fix : fix[i] > 2) =>
                    /\ fix[takeoff_index] > 2
                    /\ \A j \in DOMAIN fix : j < takeoff_index => fix[j] <= 2
             /\ (\A i \in DOMAIN fix : fix[i] <= 2) => takeoff_index = 0
             /\ takeoff.altitude.digits = gps["alt"][takeoff_index]
             /\ takeoff.latitude.digits = 1000 * gps["lat"][takeoff_index]
             /\ takeoff.longitude.digits = 1000 * gps["lon"][takeoff_index]
    /\ Fatal /\ AllRequiredLocated => \E l \in Locals : Defective(l)

\* the fix types [1, 2, 3, 4] select index 2
C6_Witness ==
    /\ Past("takeoff")
    /\ Stream("gps_pos").d["fix_type"] = [i \in 0 .. 3 |-> i + 1]
    /\ takeoff_index = 2

\* no sample has a fix: index 0, and the page is written
C6_WitnessNoFix ==
    /\ pc = "done"
    /\ \A i \in DOMAIN Stream("gps_pos").d["fix_type"] :
          Stream("gps_pos").d["fix_type"][i] <= 2
    /\ len(Stream("gps_pos").d["fix_type"]) > 1
    /\ takeoff_index = 0

(* C7: one UTC offset, time_utc_usec[t0] - timestamp[t0] of the GPS stream *)
(* at the takeoff index t0, is set once and kept, and the timestamp of     *)
(* every record of every series is the device timestamp plus that offset;  *)
(* equal device timestamps give equal timestamp strings.                   *)
DeviceTs(l, k) == Stream(l).d["timestamp"][k - 1]

C7_OneUtcOffset ==
    /\ Past("utc_offset") =>
          LET gps == Stream("gps_pos").d
          IN utc_offset = gps["time_utc_usec"][takeoff_index]
                             - gps["timestamp"][takeoff_index]
    /\ \A l \in SeriesLocals :
          \A k \in DOMAIN series[SeriesOf(l)[1]] :
              series[SeriesOf(l)[1]][k][1] = Iso(DeviceTs(l, k) + utc_offset)
    /\ \A k \in DOMAIN series["flight_modes_str"] :
          series["flight_modes_str"][k][1] =
              Iso(ulog.mode_changes[k][1] + utc_offset)
    /\ pc = "done" =>
       \A l1, l2 \in SeriesLocals :
          \A k1 \in DOMAIN series[SeriesOf(l1)[1]],
             k2 \in DOMAIN series[SeriesOf(l2)[1]] :
              DeviceTs(l1, k1) = DeviceTs(l2, k2) =>
                 series[SeriesOf(l1)[1]][k1][1] = series[SeriesOf(l2)[1]][k2][1]

\* the offset is taken at a takeoff index other than 0, and two series
\* hold samples of the same device time
C7_Witness ==
    /\ pc = "done"
    /\ takeoff_index > 0
    /\ utc_offset # 0
    /\ series["position_data"] # <<>>
    /\ series["manual_control_setpoints_str"] # <<>>
    /\ DeviceTs("gps_pos", 2) = DeviceTs("manual_control_setpoint", 2)
    /\ series["flight_modes_str"] # <<>>

(* C8: the series of a located stream has one record per sample, the k-th  *)
(* record made from the k-th sample: input order, none skipped, none       *)
(* repeated.                                                               *)
C8_OneRecordPerSample ==
    pc = "done" =>
        \A l \in SeriesLocals :
            Located(l) =>
               LET d == Stream(l).d
                   records == series[SeriesOf(l)[1]]
                   fields == SeriesOf(l)[2]
               IN /\ Len(records) = len(d["timestamp"])
                  /\ \A k \in DOMAIN records :
                        /\ records[k][1] = Iso(d["timestamp"][k - 1] + utc_offset)
                        /\ CASE l = "gps_pos" ->
                                  /\ records[k][2].digits = 1000 * d["lon"][k - 1]
                                  /\ records[k][3].digits = 1000 * d["lat"][k - 1]
                                  /\ records[k][4].digits = d["alt"][k - 1]
                             [] l = "actuator_outputs" ->
                                  \A j \in 2 .. Len(records[k]) :
                                      records[k][j].digits =
                                          d[OutputName(j - 2)][k - 1]
                             [] OTHER ->
                                  /\ Len(records[k]) = Len(fields) + 1
                                  /\ \A j \in DOMAIN fields :
                                        records[k][j + 1] =
                                            Fixed(SeriesOf(l)[3], 6,
                                                  d[fields[j]][k - 1])

\* streams of one and of two samples, all serialised
C8_Witness ==
    /\ pc = "done"
    /\ len(Stream("attitude").d["timestamp"]) = 1
    /\ Len(series["attitude_data"]) = 1
    /\ len(Stream("sensor_combined").d["timestamp"]) = 2
    /\ Len(series["sensor_combined_data"]) = 2
    /\ Len(series["position_data"]) = 2

(* C9: the vehicle model is a total function of MAV_TYPE: 1 and 22 give    *)
(* the fixed-wing asset at scale 0.06; 2, every other code and a missing   *)
(* parameter give the multirotor asset at scale 1.                         *)
C9_ModelOfMavType ==
    Past("model") =>
        LET t == ulog.mav_type
        IN /\ mav_type = t
           /\ IF t.some /\ t.v \in {1, 22}
              THEN model = [model_scale_factor |-> "0.06", model_uri |-> CesiumAir]
              ELSE model = [model_scale_factor |-> "1", model_uri |-> Iris]

C9_Witness ==
    /\ pc = "done"
    /\ ulog.mav_type = Param(22)
    /\ model.model_uri = CesiumAir

C9_WitnessNone ==
    /\ pc = "done"
    /\ ulog.mav_type = NoParam
    /\ model.model_uri = Iris

(* C10: the flight mode series has one record per mode change, in event    *)
(* order; a code of the table gets the table's name, any other code the    *)
(* name "" (and the color "#ffffff"), and no event fails or is dropped.    *)
C10_FlightModeSeries ==
    Past("flight_modes") =>
        LET events == ulog.mode_changes
            records == series["flight_modes_str"]
        IN /\ Len(records) = Len(events)
           /\ \A k \in DOMAIN events :
                 /\ records[k][1] = Iso(events[k][1] + utc_offset)
                 /\ events[k][2] \in DOMAIN flight_modes_table =>
                       records[k][2] = flight_modes_table[events[k][2]][1]
                 /\ events[k][2] \notin DOMAIN flight_modes_table =>
                       records[k][2] = ""
           /\ Len(events) > 0 =>
                 color = IF events[Len(events)][2] \in DOMAIN flight_modes_table
                         THEN flight_modes_table[events[Len(events)][2]][2]
                         ELSE "#ffffff"

\* an unknown code (-1) after a known one
C10_Witness ==
    /\ pc = "done"
    /\ Len(ulog.mode_changes) = 2
    /\ ulog.mode_changes[1][2] = 2
    /\ ulog.mode_changes[2][2] = -1
    /\ series["flight_modes_str"][2][2] = ""
    /\ color = "#ffffff"

(* C11: an attitude record lists, after its timestamp, the quaternion as   *)
(* (x, y, z, w) = (q[1], q[2], q[3], q[0]) of the sample, then rollspeed,  *)
(* pitchspeed and yawspeed: stored (0.7, 0.1, 0.2, 0.68) is emitted as     *)
(* (0.1, 0.2, 0.68, 0.7).                                                  *)
C11_QuaternionOrderXYZW ==
    Past("attitude") =>
        LET d == Stream("attitude").d
            records == series["attitude_data"]
        IN /\ Len(records) = len(d["timestamp"])
           /\ \A k \in DOMAIN records :
                 /\ Len(records[k]) = 8
                 /\ records[k][2].digits = d["q[1]"][k - 1]
                 /\ records[k][3].digits = d["q[2]"][k - 1]
                 /\ records[k][4].digits = d["q[3]"][k - 1]
                 /\ records[k][5].digits = d["q[0]"][k - 1]
                 /\ records[k][6].digits = d["rollspeed"][k - 1]
                 /\ records[k][7].digits = d["pitchspeed"][k - 1]
                 /\ records[k][8].digits = d["yawspeed"][k - 1]
                 /\ \A j \in 2 .. 8 : records[k][j].prec = 6

\* the stored quaternion (0.7, 0.1, 0.2, 0.68) comes out as
\* (0.1, 0.2, 0.68, 0.7)
C11_Witness ==
    /\ pc = "done"
    /\ Stream("attitude").d = QuaternionDataset
    /\ <<series["attitude_data"][1][2].digits, series["attitude_data"][1][3].digits,
         series["attitude_data"][1][4].digits, series["attitude_data"][1][5].digits>>
          = <<100000, 200000, 680000, 700000>>

====
